---- MODULE Spec2Model ----
(***************************************************************************)
(* GeneratorResult.get_cqc_extractor_params of qiskit_rng                  *)
(* (src/qiskit_rng/generator_result.py), as a state machine: one call of   *)
(* the method, one action per block of statements between two raise        *)
(* sites.  The helpers imported from .utils (na_set, h_mins,               *)
(* dodis_output_size, hayashi_parameters, bitarray_to_bytes, generate_wsr, *)
(* bell_value) are not part of the file; they are modelled by the          *)
(* contracts the specification gives for them.                             *)
(*                                                                         *)
(* Reals are fixed-point integers:                                         *)
(*   rate_sv        in units of 1/RateDen                                  *)
(*   epsilon values in units of 1/EpsScale                                 *)
(*   rate_bt        a fraction <<numerator, denominator>>                  *)
(*   losing_prob    in sixteenths                                          *)
(***************************************************************************)
EXTENDS Integers, Sequences, FiniteSets

\* ------------------------------------------------------------------ bounds

\* largest number of search steps (c_max) the sampled rate_sv values give
MaxSteps == 3
\* epsilon_sec ranges over 2*k/EpsScale for k in 1..MaxEps
MaxEps == 3
\* number of fixed-point units in 1.0 for the epsilon values
EpsScale == 2
\* hayashi_parameters returns a multiplier in 1..MaxMult
MaxMult == 2
\* h_mins returns a rate k/RateBtDen, k in 1..RateBtDen
RateBtDen == 2

\* ------------------------------------------------------- program constants

\* if dodis_output_len < 50
MinDodisOutput == 50
\* losing_prob = (4-correlator)/16
MerminMax == 4
\* the byte size of bitarray_to_bytes
BitsPerByte == 8
\* max_hayashi_size = 5*10**8
max_hayashi_size == 5 * 10^8
\* the 10**8 of round((1 - rate_sv) * 10**8) / 10**8
RoundScale == 10^8
\* fixed-point denominator of rate_sv: one digit more than RoundScale keeps,
\* so that round() has a digit to drop
RateDen == 10 * RoundScale

\* ------------------------------------------------------------ input domains

\* Optional[float]: <<>> is None, <<v>> is the value v
None == <<>>
Some(v) == <<v>>

\* the correlator bell_value computed at construction (a real; the Mermin
\* expression is a signed sum of four expectation values)
ObservedCorrelators == {-1, 0, 3}
\* the expected_correlator argument
ExpectedCorrelators == {None} \cup {Some(v) : v \in {0, 3, 4}}
\* rate_sv in (0, 1]: 0.1, the rates 1 - 1/k, one within 5e-9 of 1, and 1
RateSet ==
    {RateDen \div 10} \cup {RateDen - (RateDen \div k) : k \in 2..MaxSteps}
        \cup {RateDen - 4, RateDen}
\* epsilon_sec > 0
EpsilonSet == {2 * k : k \in 1..MaxEps}
\* len(get_extractor_bits(raw_bits_list))
NumBitsSet == {52, 53, max_hayashi_size + 4}
\* the input sizes the first extractor admits (the range of na_set)
AdmissibleSets == {{36, 52, max_hayashi_size + 2}, {36, 50, max_hayashi_size + 2}}
\* what dodis_output_size may answer (never more than its input size)
OutputLens == {MinDodisOutput - 1, MinDodisOutput, MinDodisOutput + 3,
               max_hayashi_size + 2}
\* what hayashi_parameters may answer as achieved epsilon
AchievedEpsilons == 0..(MaxEps + 1)

VARIABLES
    \* self and the arguments of the call
    mermin_correlator, arg_expected_correlator, rate_sv, epsilon_sec,
    quantum_proof, trusted_backend, privacy, num_bits,
    \* the collaborator na_set: its admissible sizes, and whether it is the
    \* defective one that breaks idempotence
    admissible, na_defective,
    \* locals of the method
    expected_correlator, correlator, losing_prob, rate_bt, n_dodis, diff,
    bits_len, dodis_output_len, raw_bytes, wsr_bytes, ext2_params, c_max,
    hayashi_inputs, epsilon_hayashi, c_pen, c,
    \* control: the position in the method and how the call ended
    pc, result, params,
    \* history of the collaborator calls
    wsr_calls, hayashi_cursors, hayashi_reply

inputs == <<mermin_correlator, arg_expected_correlator, rate_sv, epsilon_sec,
            quantum_proof, trusted_backend, privacy, num_bits, admissible,
            na_defective>>
first_stage == <<correlator, losing_prob, rate_bt, n_dodis, diff, bits_len,
                 dodis_output_len>>
sources == <<raw_bytes, wsr_bytes, wsr_calls>>
second_stage == <<ext2_params, c_max, hayashi_inputs, epsilon_hayashi, c_pen, c,
                  hayashi_cursors, hayashi_reply>>
vars == <<inputs, expected_correlator, first_stage, sources, second_stage,
          pc, result, params>>

\* ------------------------------------------------------------ collaborators

Max(S) == CHOOSE x \in S : \A y \in S : y <= x

\* na_set(x): the largest admissible size at or below x.  The defective
\* collaborator answers x - 1, which is not idempotent.
na_set(x) ==
    IF na_defective THEN x - 1
    ELSE Max({a \in admissible : a <= x})

\* bitarray_to_bytes: the number of bytes that hold nbits bits
bitarray_to_bytes(nbits) == (nbits + BitsPerByte - 1) \div BitsPerByte

\* ---------------------------------------------------- pieces of the method

\* Python truth value of an Optional[float]: None and 0 are false
Truthy(opt) == opt # None /\ opt[1] # 0

\* expected_correlator or self.mermin_correlator
ExpectedOrObserved(expected, observed) ==
    IF Truthy(expected) THEN expected[1] ELSE observed

\* self.mermin_correlator < expected_correlator
CorrelatorTooLow(observed, expected) == observed < expected

\* the policy check with its "not" forgotten
PrivacyTrusted(p, t) == p /\ t

\* privacy and not trusted_backend
PrivacyUntrusted(p, t) == p /\ ~t

\* (4-correlator)/16, in sixteenths
LosingProb(corr) == MerminMax - corr

\* epsilon_sec/2
EpsilonDodis(eps) == eps \div 2

\* the input size taken from num_bits instead of num_bits-1
DodisInputSizeOffByOne(nb) == na_set(nb) + 1

\* na_set(num_bits-1)+1
DodisInputSize(nb) == na_set(nb - 1) + 1

\* (num_bits*rate_bt-diff)/(num_bits-diff), rate_bt = h/RateBtDen
AdjustedRate(nb, h, d) == <<nb * h - d * RateBtDen, (nb - d) * RateBtDen>>

\* len(bits[:n_dodis])
Truncate(len, n) == IF n < len THEN n ELSE len

\* na_set(n_dodis-1)+1 != n_dodis
InputSizeInconsistent(n) == na_set(n - 1) + 1 # n

\* the generator asked for num_bits bits, the size before truncation
CallWsrGeneratorUntruncated(calls, n) == Append(calls, num_bits)

\* wsr_generator(n_dodis): the calls made so far, with their arguments
CallWsrGenerator(calls, n) == Append(calls, n)

\* the second stage switched on by trusted_backend alone
SecondStageIgnoringPrivacy(t, p) == t

\* trusted_backend and not privacy
SecondStageEnabled(t, p) == t /\ ~p

\* round(x) of Python on x = u/10: to the nearest integer, halves to even
RoundTenths(u) ==
    LET q == u \div 10
        r == u % 10
    IN  IF r > 5 \/ (r = 5 /\ q % 2 = 1) THEN q + 1 ELSE q

\* round((1 - rate_sv) * 10**8), the numerator of tem over 10**8
TemNumerator(rate) == RoundTenths(RateDen - rate)

\* floor(1 / tem)
CMax(tem) == RoundScale \div tem

\* while epsilon_hayashi > epsilon_hayashi_tolerance
SearchContinues(eps, tolerance) == eps > tolerance

\* ------------------------------------------------------------------- states

Init ==
    /\ mermin_correlator \in ObservedCorrelators
    /\ arg_expected_correlator \in ExpectedCorrelators
    /\ rate_sv \in RateSet
    /\ epsilon_sec \in EpsilonSet
    /\ quantum_proof \in BOOLEAN
    /\ trusted_backend \in BOOLEAN
    /\ privacy \in BOOLEAN
    /\ num_bits \in NumBitsSet
    /\ admissible \in AdmissibleSets
    /\ na_defective \in BOOLEAN
    /\ expected_correlator = 0
    /\ correlator = 0
    /\ losing_prob = 0
    /\ rate_bt = <<0, 1>>
    /\ n_dodis = 0
    /\ diff = 0
    /\ bits_len = 0
    /\ dodis_output_len = 0
    /\ raw_bytes = 0
    /\ wsr_bytes = 0
    /\ ext2_params = <<0, 0>>
    /\ c_max = 0
    /\ hayashi_inputs = 0
    /\ epsilon_hayashi = 0
    /\ c_pen = 0
    /\ c = 0
    /\ pc = "resolve_expected"
    /\ result = "none"
    /\ params = None
    /\ wsr_calls = <<>>
    /\ hayashi_cursors = <<>>
    /\ hayashi_reply = None

Raise(kind) ==
    /\ pc' = "done"
    /\ result' = kind
    /\ params' = params

Goto(label) ==
    /\ pc' = label
    /\ UNCHANGED <<result, params>>

\* line 122
ResolveExpected ==
    /\ pc = "resolve_expected"
    /\ expected_correlator' =
           ExpectedOrObserved(arg_expected_correlator, mermin_correlator)
    /\ Goto("check_correlator")
    /\ UNCHANGED <<inputs, first_stage, sources, second_stage>>

\* lines 124-127
CheckCorrelator ==
    /\ pc = "check_correlator"
    /\ IF CorrelatorTooLow(mermin_correlator, expected_correlator)
       THEN Raise("InsufficientCorrelation")
       ELSE Goto("check_policy")
    /\ UNCHANGED <<inputs, expected_correlator, first_stage, sources,
                   second_stage>>

\* lines 129-130
CheckPolicy ==
    /\ pc = "check_policy"
    /\ IF PrivacyUntrusted(privacy, trusted_backend)
       THEN Raise("InvalidConfiguration")
       ELSE Goto("derive_bias")
    /\ UNCHANGED <<inputs, expected_correlator, first_stage, sources,
                   second_stage>>

\* lines 132-140: h_mins answers a rate h/RateBtDen in (0, 1]
DeriveBias ==
    /\ pc = "derive_bias"
    /\ correlator' = expected_correlator
    /\ losing_prob' = LosingProb(expected_correlator)
    /\ bits_len' = num_bits
    /\ \E h \in 1..RateBtDen : rate_bt' = <<h, RateBtDen>>
    /\ Goto("size_first_stage")
    /\ UNCHANGED <<inputs, expected_correlator, n_dodis, diff,
                   dodis_output_len, sources, second_stage>>

\* lines 143-151
SizeFirstStage ==
    /\ pc = "size_first_stage"
    /\ LET n == DodisInputSize(num_bits)
           d == num_bits - n
       IN  /\ n_dodis' = n
           /\ diff' = d
           /\ rate_bt' = AdjustedRate(num_bits, rate_bt[1], d)
           /\ bits_len' = Truncate(bits_len, n)
           /\ IF InputSizeInconsistent(n)
              THEN Raise("InternalInvariantViolation")
              ELSE Goto("first_stage_output")
    /\ UNCHANGED <<inputs, expected_correlator, correlator, losing_prob,
                   dodis_output_len, sources, second_stage>>

\* lines 152-156: dodis_output_size answers a length of at most its input
FirstStageOutput ==
    /\ pc = "first_stage_output"
    /\ \E out \in OutputLens :
          /\ out <= n_dodis
          /\ dodis_output_len' = out
          /\ IF out < MinDodisOutput
             THEN Raise("InsufficientOutput")
             ELSE Goto("encode_sources")
    /\ UNCHANGED <<inputs, expected_correlator, correlator, losing_prob,
                   rate_bt, n_dodis, diff, bits_len, sources, second_stage>>

\* lines 158-159: the generator answers exactly as many bits as it is asked
EncodeSources ==
    /\ pc = "encode_sources"
    /\ raw_bytes' = bitarray_to_bytes(bits_len)
    /\ wsr_calls' = CallWsrGenerator(wsr_calls, n_dodis)
    /\ wsr_bytes' = bitarray_to_bytes(wsr_calls'[Len(wsr_calls')])
    /\ Goto("second_stage")
    /\ UNCHANGED <<inputs, expected_correlator, first_stage, second_stage>>

\* lines 162-176
BeginSecondStage ==
    /\ pc = "second_stage"
    /\ IF ~SecondStageEnabled(trusted_backend, privacy)
       THEN /\ Goto("return")
            /\ UNCHANGED <<c_max, hayashi_inputs, epsilon_hayashi>>
       ELSE LET tem == TemNumerator(rate_sv)
            IN  IF tem = 0
                THEN /\ Raise("ZeroDivisionError")
                     /\ UNCHANGED <<c_max, hayashi_inputs, epsilon_hayashi>>
                ELSE /\ c_max' = CMax(tem)
                     /\ hayashi_inputs' = na_set(dodis_output_len)
                     /\ IF hayashi_inputs' > max_hayashi_size
                        THEN /\ Raise("InputTooLarge")
                             /\ UNCHANGED epsilon_hayashi
                        ELSE /\ epsilon_hayashi' = EpsScale
                             /\ Goto("search")
    /\ ext2_params' = <<0, 0>>
    /\ c_pen' = 0
    /\ c' = 0
    /\ UNCHANGED <<inputs, expected_correlator, first_stage, sources,
                   hayashi_cursors, hayashi_reply>>

\* lines 177-181: one turn of the loop.  hayashi_parameters answers a
\* multiplier and an achieved epsilon that does not grow with the cursor.
SearchStep ==
    /\ pc = "search"
    /\ SearchContinues(epsilon_hayashi, EpsilonDodis(epsilon_sec))
    /\ IF c_pen = c_max
       THEN /\ Raise("InvalidSecurityParameters")
            /\ UNCHANGED <<c, epsilon_hayashi, c_pen, hayashi_cursors,
                           hayashi_reply>>
       ELSE /\ \E mult \in 1..MaxMult, eps \in AchievedEpsilons :
                  /\ hayashi_reply # None => eps <= hayashi_reply[1][2]
                  /\ hayashi_reply' = Some(<<mult, eps>>)
                  /\ c' = mult
                  /\ epsilon_hayashi' = eps
            /\ hayashi_cursors' = Append(hayashi_cursors, c_pen)
            /\ c_pen' = c_pen + 1
            /\ Goto("search")
    /\ UNCHANGED <<inputs, expected_correlator, first_stage, sources,
                   ext2_params, c_max, hayashi_inputs>>

\* lines 177 and 183: the loop condition is false
EndSearch ==
    /\ pc = "search"
    /\ ~SearchContinues(epsilon_hayashi, EpsilonDodis(epsilon_sec))
    /\ ext2_params' = <<hayashi_inputs, c>>
    /\ Goto("return")
    /\ UNCHANGED <<inputs, expected_correlator, first_stage, sources, c_max,
                   hayashi_inputs, epsilon_hayashi, c_pen, c, hayashi_cursors,
                   hayashi_reply>>

\* lines 185-192
Return ==
    /\ pc = "return"
    /\ params' = Some([ext1_input_num_bits |-> n_dodis,
                       ext1_output_num_bits |-> dodis_output_len,
                       ext1_raw_bytes |-> raw_bytes,
                       ext1_wsr_bytes |-> wsr_bytes,
                       ext2_seed_num_bits |-> ext2_params[1],
                       ext2_wsr_multiplier |-> ext2_params[2]])
    /\ pc' = "done"
    /\ result' = "Bundle"
    /\ UNCHANGED <<inputs, expected_correlator, first_stage, sources,
                   second_stage>>

Next ==
    \/ ResolveExpected
    \/ CheckCorrelator
    \/ CheckPolicy
    \/ DeriveBias
    \/ SizeFirstStage
    \/ FirstStageOutput
    \/ EncodeSources
    \/ BeginSecondStage
    \/ SearchStep
    \/ EndSearch
    \/ Return

Spec == Init /\ [][Next]_vars

\* ------------------------------------------------------------------- claims

Done == pc = "done"

\* the expected correlator as documented: the argument when one is given,
\* the observed correlator when it is None
DocumentedExpected ==
    IF arg_expected_correlator = None THEN mermin_correlator
    ELSE arg_expected_correlator[1]

BeforeBias == {"resolve_expected", "check_correlator", "check_policy",
               "derive_bias"}
EarlyFailures == {"InsufficientCorrelation", "InvalidConfiguration"}

\* the statements of lines 135-140 have run
BiasDerived == pc \notin BeforeBias /\ result \notin EarlyFailures

\* the statements of lines 143-149 have run
FirstStageSized ==
    pc \notin (BeforeBias \cup {"size_first_stage"}) /\ result \notin EarlyFailures

\* the call got as far as the while loop of line 177
SearchReached ==
    /\ SecondStageEnabled(trusted_backend, privacy)
    /\ result \in {"Bundle", "InvalidSecurityParameters"}

\* some answer of hayashi_parameters met the tolerance (its answers do not
\* grow, so the last one is the smallest)
ToleranceMet ==
    hayashi_reply # None /\ hayashi_reply[1][2] <= EpsilonDodis(epsilon_sec)

BothZeroOrBothPositive(seed, mult) ==
    (seed = 0 /\ mult = 0) \/ (seed > 0 /\ mult > 0)

\* C1: the call fails with InsufficientCorrelation exactly when the observed
\* correlator is strictly below the expected correlator (the argument if
\* supplied, else the observed value); equal values pass the check.
C1_InsufficientCorrelationIff ==
    Done => (result = "InsufficientCorrelation"
                <=> mermin_correlator < DocumentedExpected)

\* C2, as claimed: the call fails with InvalidConfiguration exactly when
\* privacy is set and trusted_backend is not, whatever the other inputs are.
C2_InvalidConfigurationIff ==
    Done => (result = "InvalidConfiguration"
                <=> (privacy /\ ~trusted_backend))

\* C2, amended: the call fails with InvalidConfiguration exactly when privacy
\* is set, trusted_backend is not, and the correlator check of lines 124-127
\* passed; no other input matters.
C2_InvalidConfigurationAfterCorrelatorCheck ==
    Done => (result = "InvalidConfiguration"
                <=> /\ privacy
                    /\ ~trusted_backend
                    /\ ~(mermin_correlator < expected_correlator))

C2_Witness ==
    /\ Done
    /\ result = "InvalidConfiguration"
    /\ rate_sv = RateDen
    /\ arg_expected_correlator = None

\* C3: hayashi_parameters is called at most c_max times, and a search whose
\* oracle never meets the tolerance ends in InvalidSecurityParameters after
\* exactly c_max calls.
C3_SearchBounded ==
    /\ Len(hayashi_cursors) <= c_max
    /\ (Done /\ SearchReached /\ ~ToleranceMet)
          => /\ result = "InvalidSecurityParameters"
             /\ Len(hayashi_cursors) = c_max

\* C4: in every returned bundle ext2_seed_num_bits and ext2_wsr_multiplier
\* are both zero or both strictly positive.
C4_SecondStageFieldsAgree ==
    result = "Bundle"
        => BothZeroOrBothPositive(params[1].ext2_seed_num_bits,
                                  params[1].ext2_wsr_multiplier)

C6_SecondStageDisabled ==
    (~trusted_backend \/ privacy)
        => /\ hayashi_cursors = <<>>
           /\ hayashi_reply = None
           /\ result = "Bundle"
                 => /\ params[1].ext2_seed_num_bits = 0
                    /\ params[1].ext2_wsr_multiplier = 0

C6_Witness ==
    /\ result = "Bundle"
    /\ privacy
    /\ trusted_backend
    /\ epsilon_sec < 2 * EpsScale

\* C7: every call ends with a bundle or with one of the six listed failures.
C7_SevenTerminalStates ==
    Done => result \in {"Bundle", "InsufficientCorrelation",
                        "InvalidConfiguration", "InternalInvariantViolation",
                        "InsufficientOutput", "InputTooLarge",
                        "InvalidSecurityParameters"}

\* C8: the expected correlator of the check and of the bias derivation is
\* the argument whenever one is supplied (0 included), and the observed
\* correlator only when the argument is None.
C8_ExpectedIsSupplied ==
    /\ pc # "resolve_expected" => expected_correlator = DocumentedExpected
    /\ BiasDerived
          => /\ correlator = DocumentedExpected
             /\ losing_prob = MerminMax - DocumentedExpected

\* C9: with the second stage enabled, a returned bundle comes from a search
\* that called hayashi_parameters at the cursors 0, 1, ..., k, whose last
\* answer met the tolerance; the bundle carries that answer's multiplier and
\* na_set(dodis_output_len) as seed size.
C9_SearchResult ==
    (result = "Bundle" /\ SecondStageEnabled(trusted_backend, privacy))
        => /\ Len(hayashi_cursors) >= 1
           /\ \A i \in 1..Len(hayashi_cursors) : hayashi_cursors[i] = i - 1
           /\ ToleranceMet
           /\ params[1].ext2_wsr_multiplier = hayashi_reply[1][1]
           /\ params[1].ext2_seed_num_bits = na_set(dodis_output_len)

\* C10: the generator is called at most once, with n_dodis, after every
\* check of lines 124-156 has passed: never on a call that ends in one of
\* the first four failures, always before InputTooLarge or
\* InvalidSecurityParameters.
C10_GeneratorCalledOnceAfterChecks ==
    /\ Len(wsr_calls) <= 1
    /\ \A i \in 1..Len(wsr_calls) : wsr_calls[i] = n_dodis
    /\ wsr_calls # <<>>
          => /\ pc \in {"second_stage", "search", "return", "done"}
             /\ ~(mermin_correlator < expected_correlator)
             /\ ~(privacy /\ ~trusted_backend)
             /\ na_set(n_dodis - 1) + 1 = n_dodis
             /\ dodis_output_len >= MinDodisOutput
    /\ result \in {"InsufficientCorrelation", "InvalidConfiguration",
                   "InternalInvariantViolation", "InsufficientOutput"}
          => wsr_calls = <<>>
    /\ result \in {"InputTooLarge", "InvalidSecurityParameters", "Bundle"}
          => Len(wsr_calls) = 1

C10_Witness ==
    /\ result = "InvalidSecurityParameters"
    /\ wsr_calls = <<n_dodis>>
    /\ diff > 0

====
